---- MODULE Spec2Model ----
\* Model of the CloudflareTunnelManager component (src/src/CloudflareTunnelManager.tsx,
\* second definition, lines 154-435): React state of the page, the two async
\* workflows createTunnel / deleteTunnel as sequences of await-separated steps,
\* and the operator edits of the Tunnel Name / Tunnel ID inputs.
EXTENDS Integers, Sequences, FiniteSets, TLC

NULL == "null"

\* status === null (a record so that it compares with {ok, msg} values)
StatusNull == [ok |-> FALSE, msg |-> NULL]

FIXED_DOMAIN == "house-iq.cc"

FIXED_SERVICE == "http://homeassistant:8123"

\* values the operator can type in the Tunnel Name input
NameVals == {"api-tunnel", "x", ""}

\* values the operator can type (trimmed) in the Tunnel ID input
IdVals == {"", "t1"}

\* (id, token) pairs the /api/create endpoint can return on success
AllocResults == {<<"t1", "secret123">>, <<"t2", "k2">>}

\* errors?.[0]?.message of a {success:false} body: has = FALSE when the body
\* carries no errors array / no message (undefined), else the message text
FailMsgs == {[has |-> FALSE, text |-> ""],
             [has |-> TRUE, text |-> "quota exceeded"],
             [has |-> TRUE, text |-> ""]}

\* e.message of a rejected fetch
ThrowMsgs == {"Failed to fetch", ""}

\* number of create/delete invocations in flight when the functions are
\* called directly (not through the buttons)
MaxFlights == 2

Hostname(n) == n \o "." \o FIXED_DOMAIN

\* hostname predicted by the YAML display when publicHostname is null (line 373)
PredictedHostname(n) == n \o "." \o FIXED_DOMAIN

\* variant written with a plain string literal: "${token}" is not interpolated
buildYaml_mut(token, hostname) ==
  "external_hostname: " \o hostname \o "\n" \o
  "additional_hosts: []\n" \o
  "tunnel_token: >-\n" \o
  "  ${token}\n" \o
  "nginx_proxy_manager: true\n" \o
  "log_level: debug\n" \o
  "run_parameters:\n" \o
  "  - \"--logfile=/config/cloudflared.log\"\n" \o
  "  - \"--loglevel=debug\"\n" \o
  "  - \"--retries=0\""

\* buildYaml(token, hostname): lines 194-206
buildYaml(token, hostname) ==
  "external_hostname: " \o hostname \o "\n" \o
  "additional_hosts: []\n" \o
  "tunnel_token: >-\n" \o
  "  " \o token \o "\n" \o
  "nginx_proxy_manager: true\n" \o
  "log_level: debug\n" \o
  "run_parameters:\n" \o
  "  - \"--logfile=/config/cloudflared.log\"\n" \o
  "  - \"--loglevel=debug\"\n" \o
  "  - \"--retries=0\""

\* variant written with `??`: falls back only for an undefined message
ErrOr_mut(m, dflt) == IF m.has THEN m.text ELSE dflt

\* `message || dflt`: any falsy message (undefined or "") falls back
ErrOr(m, dflt) == IF m.has /\ m.text # "" THEN m.text ELSE dflt

CatchMsg(m) == IF m = "" THEN "Network or CORS error" ELSE m

\* message of the SyntaxError res.json() throws on a non-JSON body (V8 text for
\* an HTML error page such as "<html>502 Bad Gateway</html>")
JsonParseMsg == "Unexpected token '<', \"<html>502 \"... is not valid JSON"

\* JSON bodies on which reading the parsed value throws a TypeError: a null
\* body for every call, and for /api/create a success body without `result`
BadBodies(call) ==
  IF call = "create"
  THEN {"null", "{\"success\":true}", "{\"success\":true,\"result\":null}"}
  ELSE {"null"}

\* V8's TypeError text for json.success on null / json.result.id on a
\* missing or null result
BodyTypeError(b) ==
  CASE b = "null" -> "Cannot read properties of null (reading 'success')"
    [] b = "{\"success\":true}" -> "Cannot read properties of undefined (reading 'id')"
    [] OTHER -> "Cannot read properties of null (reading 'id')"

\* the ways an awaited request step of `call` reaches the catch: log entries
\* pushed before the throw, and the message the catch records
\*   - the fetch rejects (e.message, "" falling back to "Network or CORS error")
\*   - res.json() throws after the status was logged
\*   - reading the parsed body throws after the status and body were logged
ThrowCases(call) ==
  {[logs |-> <<>>, msg |-> CatchMsg(m)] : m \in ThrowMsgs}
  \cup {[logs |-> << <<call \o " status">> >>, msg |-> JsonParseMsg]}
  \cup {[logs |-> << <<call \o " status">>, <<call \o " body", b>> >>,
         msg |-> BodyTypeError(b)] : b \in BadBodies(call)}

RemoveAt(s, i) == SubSeq(s, 1, i - 1) \o SubSeq(s, i + 1, Len(s))

VARIABLES
  tunnelName,      \* useState("api-tunnel")
  tunnelId,        \* useState("")
  tunnelToken,     \* useState("")
  publicHostname,  \* useState<string|null>(null)
  status,          \* useState<null|{ok,msg}>(null)
  error,           \* useState<string|null>(null)
  loading,         \* useState(false)
  debugLogs,       \* useState<string[]>([])
  flights,         \* in-flight createTunnel/deleteTunnel invocations (async frames)
  last             \* the most recently completed invocation (history)

vars == <<tunnelName, tunnelId, tunnelToken, publicHostname, status, error,
          loading, debugLogs, flights, last>>

Snapshot == [tunnelId |-> tunnelId, tunnelToken |-> tunnelToken,
             publicHostname |-> publicHostname]

NoFlight == [kind |-> "none", pc |-> "done", name |-> "", tid |-> "", id |-> "",
             token |-> "", logs |-> <<>>, calls |-> <<>>,
             pre |-> [tunnelId |-> "", tunnelToken |-> "", publicHostname |-> NULL],
             edited |-> FALSE, outcome |-> "none"]

Init ==
  /\ tunnelName = "api-tunnel"
  /\ tunnelId = ""
  /\ tunnelToken = ""
  /\ publicHostname = NULL
  /\ status = StatusNull
  /\ error = NULL
  /\ loading = FALSE
  /\ debugLogs = <<>>
  /\ flights = <<>>
  /\ last = NoFlight

\* the invocation at index i of flights returns; it becomes `last`
Finish(i, f, outcome) ==
  /\ flights' = RemoveAt(flights, i)
  /\ last' = [f EXCEPT !.pc = "done", !.logs = <<>>, !.outcome = outcome]

\* ---------------------------------------------------------------- createTunnel
\* variant releasing the previously held tunnel before allocating a new one
createTunnel_start_mut ==
  /\ loading' = TRUE
  /\ status' = StatusNull
  /\ error' = NULL
  /\ debugLogs' = <<>>
  /\ flights' = Append(flights,
        [kind |-> "create", pc |-> "awaitCreate", name |-> tunnelName,
         tid |-> "", id |-> "", token |-> "",
         logs |-> << <<"start create", tunnelName>> >>,
         calls |-> IF tunnelId = "" THEN << <<"allocate", tunnelName>> >>
                   ELSE << <<"releaseTunnel", tunnelId>>, <<"allocate", tunnelName>> >>,
         pre |-> Snapshot, edited |-> FALSE, outcome |-> "pending"])
  /\ UNCHANGED <<tunnelName, tunnelId, tunnelToken, publicHostname, last>>

\* synchronous part up to the first await: lines 210-224
createTunnel_start ==
  /\ loading' = TRUE
  /\ status' = StatusNull
  /\ error' = NULL
  /\ debugLogs' = <<>>
  /\ flights' = Append(flights,
        [kind |-> "create", pc |-> "awaitCreate", name |-> tunnelName,
         tid |-> "", id |-> "", token |-> "",
         logs |-> << <<"start create", tunnelName>> >>,
         calls |-> << <<"allocate", tunnelName>> >>,
         pre |-> Snapshot, edited |-> FALSE, outcome |-> "pending"])
  /\ UNCHANGED <<tunnelName, tunnelId, tunnelToken, publicHostname, last>>

\* /api/create answered {success:false}: lines 225-233, finally 274
createTunnel_allocFail ==
  \E i \in 1..Len(flights) : \E m \in FailMsgs :
    LET f == flights[i]
        lg == f.logs \o << <<"create status">>, <<"create body", "fail", m>>,
                           <<"create failed", m>> >>
    IN /\ f.kind = "create" /\ f.pc = "awaitCreate"
       /\ debugLogs' = lg
       /\ error' = ErrOr(m, "Unknown error")
       /\ loading' = FALSE
       /\ Finish(i, [f EXCEPT !.logs = lg], "allocFail")
       /\ UNCHANGED <<tunnelName, tunnelId, tunnelToken, publicHostname, status>>

\* fetch rejected, res.json() threw, or reading json.success / json.result.id
\* threw after the body was logged (null body, success without result):
\* lines 220-237, 268-274
createTunnel_allocThrow ==
  \E i \in 1..Len(flights) : \E c \in ThrowCases("create") :
    LET f == flights[i]
        lg == f.logs \o c.logs \o << <<"threw", c.msg>> >>
    IN /\ f.kind = "create" /\ f.pc = "awaitCreate"
       /\ debugLogs' = lg
       /\ error' = c.msg
       /\ loading' = FALSE
       /\ Finish(i, [f EXCEPT !.logs = lg], "allocFail")
       /\ UNCHANGED <<tunnelName, tunnelId, tunnelToken, publicHostname, status>>

\* variant binding the hostname to the tunnelId read from state, not to the
\* id of the allocate response
createTunnel_allocOk_mut ==
  \E i \in 1..Len(flights) : \E r \in AllocResults :
    LET f == flights[i]
        lg == f.logs \o << <<"create status">>, <<"create body", "ok", r[1]>>,
                           <<"created", r[1]>>,
                           <<"configuring", Hostname(f.name)>> >>
    IN /\ f.kind = "create" /\ f.pc = "awaitCreate"
       /\ tunnelId' = r[1]
       /\ tunnelToken' = r[2]
       /\ flights' = [flights EXCEPT ![i] =
             [f EXCEPT !.pc = "awaitHost", !.id = r[1], !.token = r[2],
                       !.logs = lg,
                       !.calls = Append(f.calls, <<"bind", tunnelId, f.name>>)]]
       /\ UNCHANGED <<tunnelName, publicHostname, status, error, loading,
                      debugLogs, last>>

\* /api/create answered {success:true}; the /api/hostname POST is sent:
\* lines 225-253
createTunnel_allocOk ==
  \E i \in 1..Len(flights) : \E r \in AllocResults :
    LET f == flights[i]
        lg == f.logs \o << <<"create status">>, <<"create body", "ok", r[1]>>,
                           <<"created", r[1]>>,
                           <<"configuring", Hostname(f.name)>> >>
    IN /\ f.kind = "create" /\ f.pc = "awaitCreate"
       /\ tunnelId' = r[1]
       /\ tunnelToken' = r[2]
       /\ flights' = [flights EXCEPT ![i] =
             [f EXCEPT !.pc = "awaitHost", !.id = r[1], !.token = r[2],
                       !.logs = lg,
                       !.calls = Append(f.calls, <<"bind", r[1], f.name>>)]]
       /\ UNCHANGED <<tunnelName, publicHostname, status, error, loading,
                      debugLogs, last>>

\* /api/hostname answered {success:true}: lines 254-267, finally 274
createTunnel_bindOk ==
  \E i \in 1..Len(flights) :
    LET f == flights[i]
        lg == f.logs \o << <<"hostname status">>, <<"hostname body", "ok">>,
                           <<"hostname configured">> >>
    IN /\ f.kind = "create" /\ f.pc = "awaitHost"
       /\ publicHostname' = Hostname(f.name)
       /\ status' = [ok |-> TRUE, msg |-> "Tunnel + hostname ready (" \o f.id \o ")"]
       /\ loading' = FALSE
       /\ Finish(i, [f EXCEPT !.logs = lg], "success")
       /\ UNCHANGED <<tunnelName, tunnelId, tunnelToken, error, debugLogs>>

\* variant without the finally's setLoading(false)
createTunnel_bindFail_mut ==
  \E i \in 1..Len(flights) : \E m \in FailMsgs :
    LET f == flights[i]
        lg == f.logs \o << <<"hostname status">>, <<"hostname body", "fail", m>>,
                           <<"hostname create failed", m>> >>
    IN /\ f.kind = "create" /\ f.pc = "awaitHost"
       /\ debugLogs' = lg
       /\ error' = ErrOr(m, "Hostname create failed")
       /\ Finish(i, [f EXCEPT !.logs = lg], "bindFail")
       /\ UNCHANGED <<tunnelName, tunnelId, tunnelToken, publicHostname, status,
                      loading>>

\* /api/hostname answered {success:false}: lines 254-262, finally 274
createTunnel_bindFail ==
  \E i \in 1..Len(flights) : \E m \in FailMsgs :
    LET f == flights[i]
        lg == f.logs \o << <<"hostname status">>, <<"hostname body", "fail", m>>,
                           <<"hostname create failed", m>> >>
    IN /\ f.kind = "create" /\ f.pc = "awaitHost"
       /\ debugLogs' = lg
       /\ error' = ErrOr(m, "Hostname create failed")
       /\ loading' = FALSE
       /\ Finish(i, [f EXCEPT !.logs = lg], "bindFail")
       /\ UNCHANGED <<tunnelName, tunnelId, tunnelToken, publicHostname, status>>

\* the hostname fetch rejected, hostRes.json() threw, or reading
\* hostJson.success threw after the body was logged (null body):
\* lines 244-258, 268-274
createTunnel_bindThrow ==
  \E i \in 1..Len(flights) : \E c \in ThrowCases("hostname") :
    LET f == flights[i]
        lg == f.logs \o c.logs \o << <<"threw", c.msg>> >>
    IN /\ f.kind = "create" /\ f.pc = "awaitHost"
       /\ debugLogs' = lg
       /\ error' = c.msg
       /\ loading' = FALSE
       /\ Finish(i, [f EXCEPT !.logs = lg], "bindFail")
       /\ UNCHANGED <<tunnelName, tunnelId, tunnelToken, publicHostname, status>>

\* ---------------------------------------------------------------- deleteTunnel
\* variant without the empty-id early return
deleteTunnel_invoke_mut ==
  /\ loading' = TRUE
  /\ status' = StatusNull
  /\ error' = NULL
  /\ debugLogs' = <<>>
  /\ flights' = Append(flights,
        [kind |-> "delete", pc |-> "awaitDelete", name |-> tunnelName,
         tid |-> tunnelId, id |-> "", token |-> "",
         logs |-> << <<"start delete", tunnelId>> >>,
         calls |-> << <<"releaseTunnel", tunnelId>> >>,
         pre |-> Snapshot, edited |-> FALSE, outcome |-> "pending"])
  /\ UNCHANGED <<tunnelName, tunnelId, tunnelToken, publicHostname, last>>

\* synchronous part up to the first await: lines 280-294
deleteTunnel_invoke ==
  IF tunnelId = ""
  THEN /\ error' = "No tunnel ID set"
       /\ last' = [NoFlight EXCEPT !.kind = "delete", !.pre = Snapshot,
                                   !.outcome = "rejected"]
       /\ UNCHANGED <<tunnelName, tunnelId, tunnelToken, publicHostname, status,
                      loading, debugLogs, flights>>
  ELSE /\ loading' = TRUE
       /\ status' = StatusNull
       /\ error' = NULL
       /\ debugLogs' = <<>>
       /\ flights' = Append(flights,
             [kind |-> "delete", pc |-> "awaitDelete", name |-> tunnelName,
              tid |-> tunnelId, id |-> "", token |-> "",
              logs |-> << <<"start delete", tunnelId>> >>,
              calls |-> << <<"releaseTunnel", tunnelId>> >>,
              pre |-> Snapshot, edited |-> FALSE, outcome |-> "pending"])
       /\ UNCHANGED <<tunnelName, tunnelId, tunnelToken, publicHostname, last>>

\* variant that clears the session and still releases the hostname on failure
deleteTunnel_delFail_mut ==
  \E i \in 1..Len(flights) :
    LET f == flights[i]
        lg == f.logs \o << <<"delete status">>, <<"delete body", "fail">>,
                           <<"delete tunnel failed">> >>
    IN /\ f.kind = "delete" /\ f.pc = "awaitDelete"
       /\ debugLogs' = lg
       /\ error' = "Delete tunnel failed"
       /\ loading' = FALSE
       /\ tunnelToken' = ""
       /\ Finish(i, [f EXCEPT !.logs = lg,
                       !.calls = Append(f.calls, <<"releaseHostname", f.name>>)],
                 "delFail")
       /\ UNCHANGED <<tunnelName, tunnelId, publicHostname, status>>

\* /api/delete/:id answered {success:false}: lines 295-303, finally 328
deleteTunnel_delFail ==
  \E i \in 1..Len(flights) :
    LET f == flights[i]
        lg == f.logs \o << <<"delete status">>, <<"delete body", "fail">>,
                           <<"delete tunnel failed">> >>
    IN /\ f.kind = "delete" /\ f.pc = "awaitDelete"
       /\ debugLogs' = lg
       /\ error' = "Delete tunnel failed"
       /\ loading' = FALSE
       /\ Finish(i, [f EXCEPT !.logs = lg], "delFail")
       /\ UNCHANGED <<tunnelName, tunnelId, tunnelToken, publicHostname, status>>

\* the delete fetch rejected, res.json() threw, or reading json.success
\* threw after the body was logged (null body): lines 294-299, 322-328
deleteTunnel_delThrow ==
  \E i \in 1..Len(flights) : \E c \in ThrowCases("delete") :
    LET f == flights[i]
        lg == f.logs \o c.logs \o << <<"threw", c.msg>> >>
    IN /\ f.kind = "delete" /\ f.pc = "awaitDelete"
       /\ debugLogs' = lg
       /\ error' = c.msg
       /\ loading' = FALSE
       /\ Finish(i, [f EXCEPT !.logs = lg], "delFail")
       /\ UNCHANGED <<tunnelName, tunnelId, tunnelToken, publicHostname, status>>

\* /api/delete/:id answered {success:true}; the /api/hostname DELETE is sent
\* for the subdomain held by the closure's tunnelName: lines 295-312
deleteTunnel_delOk ==
  \E i \in 1..Len(flights) :
    LET f == flights[i]
        lg == f.logs \o << <<"delete status">>, <<"delete body", "ok">>,
                           <<"deleting cname", Hostname(f.name)>> >>
    IN /\ f.kind = "delete" /\ f.pc = "awaitDelete"
       /\ flights' = [flights EXCEPT ![i] =
             [f EXCEPT !.pc = "awaitCname", !.logs = lg,
                       !.calls = Append(f.calls, <<"releaseHostname", f.name>>)]]
       /\ UNCHANGED <<tunnelName, tunnelId, tunnelToken, publicHostname, status,
                      error, loading, debugLogs, last>>

\* the /api/hostname DELETE returned a response, whatever its body
\* (cnameRes.json().catch(() => null)): lines 313-321, finally 328
deleteTunnel_cnameDone ==
  \E i \in 1..Len(flights) : \E body \in {"ok", "fail", "unparsable"} :
    LET f == flights[i]
        lg == f.logs \o << <<"cname status">>, <<"cname body", body>>,
                           <<"tunnel + hostname deleted">> >>
    IN /\ f.kind = "delete" /\ f.pc = "awaitCname"
       /\ tunnelId' = ""
       /\ tunnelToken' = ""
       /\ publicHostname' = NULL
       /\ status' = [ok |-> TRUE, msg |-> "Tunnel + hostname deleted"]
       /\ loading' = FALSE
       /\ Finish(i, [f EXCEPT !.logs = lg], "success")
       /\ UNCHANGED <<tunnelName, error, debugLogs>>

\* the /api/hostname DELETE fetch rejected: lines 308, 322-328
deleteTunnel_cnameThrow ==
  \E i \in 1..Len(flights) : \E m \in ThrowMsgs :
    LET f == flights[i]
        lg == f.logs \o << <<"threw", CatchMsg(m)>> >>
    IN /\ f.kind = "delete" /\ f.pc = "awaitCname"
       /\ debugLogs' = lg
       /\ error' = CatchMsg(m)
       /\ loading' = FALSE
       /\ Finish(i, [f EXCEPT !.logs = lg], "cnameThrow")
       /\ UNCHANGED <<tunnelName, tunnelId, tunnelToken, publicHostname, status>>

\* ---------------------------------------------------------------- operator input
\* Tunnel Name input onChange: lines 340-344
EditName ==
  \E v \in NameVals :
    /\ v # tunnelName
    /\ tunnelName' = v
    /\ UNCHANGED <<tunnelId, tunnelToken, publicHostname, status, error, loading,
                   debugLogs, flights, last>>

\* Tunnel ID input onChange (value trimmed): lines 345-349
EditId ==
  \E v \in IdVals :
    /\ v # tunnelId
    /\ tunnelId' = v
    /\ flights' = [j \in 1..Len(flights) |-> [flights[j] EXCEPT !.edited = TRUE]]
    /\ UNCHANGED <<tunnelName, tunnelToken, publicHostname, status, error, loading,
                   debugLogs, last>>

\* Create button without the disabled attribute
ClickCreate_mut == createTunnel_start

\* Create button, disabled={loading}: lines 353-360
ClickCreate == ~loading /\ createTunnel_start

\* Delete button, disabled={loading || !tunnelId}: lines 361-368
ClickDelete == ~loading /\ tunnelId # "" /\ deleteTunnel_invoke

Next ==
  \/ ClickCreate
  \/ createTunnel_allocFail
  \/ createTunnel_allocThrow
  \/ createTunnel_allocOk
  \/ createTunnel_bindOk
  \/ createTunnel_bindFail
  \/ createTunnel_bindThrow
  \/ ClickDelete
  \/ deleteTunnel_delFail
  \/ deleteTunnel_delThrow
  \/ deleteTunnel_delOk
  \/ deleteTunnel_cnameDone
  \/ deleteTunnel_cnameThrow
  \/ EditName
  \/ EditId

Spec == Init /\ [][Next]_vars

\* createTunnel / deleteTunnel called as operations (the spec's create/delete),
\* not only through the buttons: the functions themselves, lines 209-215 and
\* 279-288, have no check of `loading`.
CallCreate == Len(flights) < MaxFlights /\ createTunnel_start

CallDelete == Len(flights) < MaxFlights /\ deleteTunnel_invoke

NextDirect ==
  \/ CallCreate
  \/ createTunnel_allocFail
  \/ createTunnel_allocThrow
  \/ createTunnel_allocOk
  \/ createTunnel_bindOk
  \/ createTunnel_bindFail
  \/ createTunnel_bindThrow
  \/ CallDelete
  \/ deleteTunnel_delFail
  \/ deleteTunnel_delThrow
  \/ deleteTunnel_delOk
  \/ deleteTunnel_cnameDone
  \/ deleteTunnel_cnameThrow

SpecDirect == Init /\ [][NextDirect]_vars

\* a response (or transport error) to an outstanding fetch
Respond ==
  \/ createTunnel_allocFail
  \/ createTunnel_allocThrow
  \/ createTunnel_allocOk
  \/ createTunnel_bindOk
  \/ createTunnel_bindFail
  \/ createTunnel_bindThrow
  \/ deleteTunnel_delFail
  \/ deleteTunnel_delThrow
  \/ deleteTunnel_delOk
  \/ deleteTunnel_cnameDone
  \/ deleteTunnel_cnameThrow

\* every outstanding fetch eventually settles
SpecLive == Spec /\ WF_vars(Respond)

\* ================================================================ properties

\* invocations in flight and the last completed one
Records == {flights[j] : j \in 1..Len(flights)} \cup {last}

\* C1 (as stated): when create's bind call succeeds, the session holds a
\* non-empty tunnelId and the tunnelToken of the allocate response, the hostname
\* name.house-iq.cc and a Success status.
C1_Claim ==
  [][createTunnel_bindOk =>
       /\ tunnelId' # "" /\ tunnelId' = last'.id
       /\ tunnelToken' = last'.token
       /\ publicHostname' = Hostname(last'.name)
       /\ status' # StatusNull /\ status'.ok /\ error' = NULL]_vars



\* C2: when create's allocate call fails, tunnelId, tunnelToken and
\* publicHostname are empty afterwards and exactly one remote call was made.
C2_Claim ==
  [][(createTunnel_allocFail \/ createTunnel_allocThrow) =>
       /\ tunnelId' = "" /\ tunnelToken' = "" /\ publicHostname' = NULL
       /\ Len(last'.calls) = 1]_vars

\* C3: when create's allocate call succeeds and its bind call fails, tunnelId
\* and tunnelToken are the allocated ones, publicHostname is null and the error
\* carries the bind failure message.
C3_Claim ==
  [][(createTunnel_bindFail \/ createTunnel_bindThrow) =>
       /\ tunnelId' = last'.id /\ tunnelToken' = last'.token
       /\ publicHostname' = NULL /\ error' # NULL]_vars

\* C4 (as stated): when delete's release-tunnel call fails, tunnelId,
\* tunnelToken and publicHostname equal their values before the call and no
\* release-hostname call was made.
C4_Claim ==
  [][(deleteTunnel_delFail \/ deleteTunnel_delThrow) =>
       /\ tunnelId' = last'.pre.tunnelId
       /\ tunnelToken' = last'.pre.tunnelToken
       /\ publicHostname' = last'.pre.publicHostname
       /\ \A k \in 1..Len(last'.calls) : last'.calls[k][1] # "releaseHostname"]_vars



\* C5: when delete's release-tunnel call succeeds, whatever happens to the
\* release-hostname call the workflow ends with Success and the session cleared.
C5_Claim ==
  [][(deleteTunnel_cnameDone \/ deleteTunnel_cnameThrow) =>
       /\ status' # StatusNull /\ status'.ok /\ error' = NULL
       /\ tunnelId' = "" /\ tunnelToken' = "" /\ publicHostname' = NULL]_vars

\* C6: calling create or delete while loading is true starts no workflow and
\* makes no remote call.
C6_Claim ==
  [][(loading /\ (CallCreate \/ CallDelete)) => flights' = flights]_vars

\* C7: at most one workflow is in flight and loading is true exactly while one is.
C7_Inv ==
  /\ Len(flights) <= 1
  /\ (loading <=> Len(flights) = 1)

C7_Witness ==
  /\ Len(flights) = 1 /\ loading
  /\ flights[1].pc \in {"awaitHost", "awaitCname"}

\* C8: delete with an empty tunnel id sets the error "No tunnel ID set", starts
\* no workflow and leaves loading, tunnelToken and publicHostname unchanged.
C8_Inv ==
  [][(CallDelete /\ tunnelId = "") =>
       /\ error' = "No tunnel ID set" /\ flights' = flights
       /\ UNCHANGED <<loading, tunnelToken, publicHostname>>]_vars

C8_Witness ==
  /\ last.kind = "delete" /\ last.outcome = "rejected"
  /\ error = "No tunnel ID set" /\ loading

\* C9: a non-null publicHostname implies a non-empty tunnelId.
C9_Claim == publicHostname # NULL => tunnelId # ""

\* C10 (as stated): in every delete the release-hostname call comes before the
\* release-tunnel call.
C10_Claim ==
  \A r \in Records :
    \A k1, k2 \in 1..Len(r.calls) :
      (r.calls[k1][1] = "releaseTunnel" /\ r.calls[k2][1] = "releaseHostname")
        => k2 < k1

\* C10 (amended): delete calls release-tunnel first, and calls release-hostname
\* second, only when release-tunnel succeeded.
C10_Amended ==
  \A r \in Records :
    (r.kind = "delete" /\ r.outcome # "rejected") =>
      /\ r.calls[1] = <<"releaseTunnel", r.tid>>
      /\ Len(r.calls) <= 2
      /\ (Len(r.calls) = 2 <=> (r.pc = "awaitCname" \/ r.outcome \in {"success", "cnameThrow"}))
      /\ (Len(r.calls) = 2 => r.calls[2] = <<"releaseHostname", r.name>>)

C10_Witness ==
  /\ last.kind = "delete" /\ last.outcome = "success" /\ Len(last.calls) = 2

\* C11: every create/delete makes at most two remote calls, one after the
\* other; create's bind call follows a successful allocate and names the
\* tunnel id that allocate returned.
C11_Inv ==
  \A r \in Records :
    /\ Len(r.calls) <= 2
    /\ (r.kind = "create" =>
          /\ Len(r.calls) >= 1 /\ r.calls[1] = <<"allocate", r.name>>
          /\ (Len(r.calls) = 2 =>
                /\ r.calls[2] = <<"bind", r.id, r.name>>
                /\ <<r.id, r.token>> \in AllocResults
                /\ r.outcome \in {"pending", "success", "bindFail"}))

C11_Witness ==
  /\ last.kind = "create" /\ Len(last.calls) = 2 /\ last.outcome = "bindFail"
  /\ last.pre.tunnelId # last.id

\* C12: delete releases the hostname binding that the session holds (the
\* subdomain remembered from the create that bound it), whatever the Tunnel
\* Name field holds when delete runs.
C12_Claim ==
  \A r \in Records :
    (/\ r.kind = "delete" /\ Len(r.calls) = 2
     /\ r.pre.publicHostname # NULL)
      => Hostname(r.calls[2][2]) = r.pre.publicHostname

\* the configuration document rendered below the form (lines 371-386)
DisplayedYaml ==
  IF tunnelToken = "" THEN NULL
  ELSE buildYaml(tunnelToken, IF publicHostname = NULL
                              THEN PredictedHostname(tunnelName)
                              ELSE publicHostname)

\* C13: whenever a token is present, the document shown equals the document
\* predicted from subdomain + ".house-iq.cc" for the same token.
C13_Claim ==
  tunnelToken # "" => DisplayedYaml = buildYaml(tunnelToken, PredictedHostname(tunnelName))
\* steps that end a create/delete invocation as a failure
FailStep ==
  \/ createTunnel_allocFail \/ createTunnel_allocThrow
  \/ createTunnel_bindFail \/ createTunnel_bindThrow
  \/ deleteTunnel_delFail \/ deleteTunnel_delThrow \/ deleteTunnel_cnameThrow
  \/ (CallDelete /\ tunnelId = "")

\* t occurs in s as a contiguous substring
Contains(s, t) == \E i \in 0..(Len(s) - Len(t)) : SubSeq(s, i + 1, i + Len(t)) = t

\* C14: the rendered configuration document contains the token and the
\* hostname it was rendered with, verbatim (checked on the document the page
\* renders, for every reachable token / hostname pair).
C14_Inv ==
  tunnelToken # "" =>
    LET h == IF publicHostname = NULL THEN PredictedHostname(tunnelName)
             ELSE publicHostname
        y == buildYaml(tunnelToken, h)
    IN Contains(y, tunnelToken) /\ Contains(y, h)

C14_Witness ==
  /\ tunnelToken = "k2" /\ publicHostname = Hostname("x")

C16_Claim ==
  [][(ClickCreate /\ tunnelName = "") =>
       /\ flights' = flights
       /\ UNCHANGED <<tunnelId, tunnelToken, publicHostname>>]_vars

\* steps that end a create/delete invocation
FinishStep ==
  \/ FailStep
  \/ createTunnel_bindOk \/ deleteTunnel_cnameDone

\* C17: when a workflow ends, the diagnostic trace holds a request and a
\* response entry for each remote call it made.
C17_Claim ==
  [][(FinishStep /\ last'.outcome # "rejected") =>
       Len(debugLogs') >= 2 * Len(last'.calls)]_vars
\* C18: tunnelToken is non-empty exactly when tunnelId is, and the pair is one
\* returned together by an allocate call.
C18_Claim ==
  /\ (tunnelToken # "" <=> tunnelId # "")
  /\ (tunnelId # "" => <<tunnelId, tunnelToken>> \in AllocResults)

\* C19: every started create/delete workflow eventually ends with loading false.
C19_Live == loading ~> ~loading

C19_Witness ==
  /\ loading /\ Len(flights) = 1 /\ flights[1].pc = "awaitHost"

\* C20: create never calls release-tunnel or release-hostname; a create run
\* while a tunnel id is held replaces it without releasing it.
C20_Inv ==
  \A r \in Records :
    r.kind = "create" =>
      \A k \in 1..Len(r.calls) : r.calls[k][1] \in {"allocate", "bind"}

C20_Witness ==
  /\ last.kind = "create" /\ last.outcome = "success"
  /\ last.pre.tunnelId # "" /\ tunnelId = last.id /\ last.id # last.pre.tunnelId
====
